---- MODULE Spec2Model ----
(***************************************************************************)
(* State machine of blockchain/state_prefetcher.go: the statePrefetcher's  *)
(* two passes, Prefetch (whole block) and PrefetchTx (one transaction),    *)
(* and the execution adapter precacheTransaction they share.               *)
(*                                                                         *)
(* A pass runs on its own scratch state database (stateDB) and reads its   *)
(* own interrupt word.  The supervisor that owns the word, the message     *)
(* deriver, the execution engine and the canonical block processor are     *)
(* collaborators outside the file; they are modelled from the              *)
(* specification.                                                          *)
(***************************************************************************)
EXTENDS Integers, Sequences, FiniteSets, TLC

\* Longest block, in transactions.
MaxTxs == 3
\* Number of pass slots (invocations that can be in flight at once).
NumPasses == 1

Passes == 1..NumPasses

\* What a transaction does when it is derived and applied in sequence:
\*   ok      derives, applies, succeeds
\*   revert  derives, applies, reverts during execution
\*   badsig  cannot be derived into a Message
\*   invalid derives, but the engine rejects it at apply time
\*   fault   derives, applies, and the engine reports a failure of another
\*           class than invalid-transaction in its classified error
TxKinds == {"ok", "revert", "badsig", "invalid", "fault"}

\* The transaction at position j (1-based) of a block carries nonce j-1.
MkBlock(ks) == [j \in DOMAIN ks |-> [kind |-> ks[j], nonce |-> j - 1]]

Blocks == {MkBlock(ks) : ks \in UNION {[1..n -> TxKinds] : n \in 0..MaxTxs}}

\* Account nonces a caller-supplied state database can start with.
StateNonces == 0..(MaxTxs - 1)

NoTx == [kind |-> "none", nonce |-> 0]
NoHash == <<"none">>
NoResult == [done |-> FALSE, ok |-> FALSE, nonce |-> 0]

\* tx.Hash(): a content hash.
Hash(tx) == <<tx.kind, tx.nonce>>

\* block.Hash(): a hash over the block's content.
BlockHash(b) == <<"block", [j \in DOMAIN b |-> Hash(b[j])]>>

\* block.Transactions()[i], 0-based as in the source.
Transactions(b, i) == b[i + 1]

\* A state database as handed to a pass: account data plus the tag fields
\* (thash, bhash, txIndex) that Prepare sets.
NewStateDB(n) == [nonce |-> n, thash |-> NoHash, bhash |-> NoHash, txIndex |-> -1]

\* stateDB.Prepare(thash, bhash, ti)
Prepare(st, thash, bhash, ti) ==
    [st EXCEPT !.thash = thash, !.bhash = bhash, !.txIndex = ti]

\* tx.AsMessageWithAccountKeyPicker(signer, statedb, number): the Message
\* or a derivation error.
AsMessageWithAccountKeyPicker(tx, st) ==
    IF tx.kind = "badsig"
    THEN [msg |-> NoTx, err |-> "ErrInvalidSig"]
    ELSE [msg |-> tx, err |-> "nil"]

\* vm.NewEVM(context, statedb, config, &cfg): an engine bound to statedb.
NewEVM(msg, st) == [statedb |-> st, origin |-> msg]

\* ApplyMessage(vm, msg): the engine's state after the call and kerr.
ApplyMessage(vm, msg) ==
    IF msg.kind = "invalid" \/ msg.nonce # vm.statedb.nonce
    THEN [statedb |-> vm.statedb,
          kerr |-> [ErrTxInvalid |-> "ErrInvalidTx", Status |-> "none"]]
    ELSE [statedb |-> [vm.statedb EXCEPT !.nonce = @ + 1],
          kerr |-> [ErrTxInvalid |-> "nil",
                    Status |-> CASE msg.kind = "revert" -> "reverted"
                                 [] msg.kind = "fault" -> "fault"
                                 [] OTHER -> "success"]]

\* An adapter that reports a revert (kerr.Status) as an error.
AdapterError_Status(kerr) ==
    IF kerr.ErrTxInvalid # "nil" THEN kerr.ErrTxInvalid
    ELSE IF kerr.Status = "reverted" THEN "ErrExecutionReverted"
    ELSE "nil"

\* An adapter that returns every failure the engine reports, of whatever class.
AdapterError_AnyFailure(kerr) ==
    IF kerr.ErrTxInvalid # "nil" THEN kerr.ErrTxInvalid
    ELSE IF kerr.Status = "fault" THEN "ErrEngineFault"
    ELSE "nil"

\* An adapter that drops the engine's error.
AdapterError_Nil(kerr) == "nil"

\* The error precacheTransaction returns after ApplyMessage.
AdapterError(kerr) == kerr.ErrTxInvalid

\* A check that takes every nonzero flag word for a request.
Interrupted_NonZero(intr, w) == intr # "nil" /\ w # 0

\* A check that reads the flag word without asking whether it was given one.
Interrupted_NoNilGuard(intr, w) == w = 1

\* A check that never sees the flag.
Interrupted_Never(intr, w) == FALSE

\* atomic.LoadUint32(interrupt) == 1, guarded by interrupt != nil.
Interrupted(intr, w) == intr # "nil" /\ w = 1

\* precacheTransaction(config, bc, nil, statedb, header, tx, cfg) as one
\* call: the state database after it, the error it returns and the engine's
\* status.
precacheTransaction(statedb, tx) ==
    LET d == AsMessageWithAccountKeyPicker(tx, statedb)
    IN IF d.err # "nil"
       THEN [statedb |-> statedb, err |-> d.err, status |-> "none"]
       ELSE LET r == ApplyMessage(NewEVM(d.msg, statedb), d.msg)
            IN [statedb |-> r.statedb, err |-> AdapterError(r.kerr),
                status |-> r.kerr.Status]

\* Step i of Prefetch's loop body past the check: Prepare, then the adapter.
PrefetchStep(b, i, statedb) ==
    LET tx == Transactions(b, i)
    IN precacheTransaction(Prepare(statedb, Hash(tx), BlockHash(b), i), tx)

VARIABLES
    block,        \* the block the passes run over
    pc,           \* each pass's position
    api,          \* which operation the pass is: "Prefetch" or "PrefetchTx"
    idx,          \* Prefetch's loop index i, PrefetchTx's ti
    stateDB,      \* each pass's scratch state database
    interrupt,    \* "nil" or "ptr": the interrupt argument of the pass
    word,         \* the supervisor's uint32 flag word of each pass
    msg,          \* the Message derived for the transaction in progress
    result,       \* how the pass returned
    log,          \* history: what the pass did, in order
    canon,        \* the canonical state database
    canonResult   \* result of the canonical execution of the block

vars == <<block, pc, api, idx, stateDB, interrupt, word, msg, result, log,
          canon, canonResult>>

passVars == <<pc, api, idx, stateDB, interrupt, msg, result, log>>

\* One entry of a pass's history: the step taken, the loop index, the scratch
\* account data and tag and the flag word at that moment, and the step's
\* outcome (status) and error.
Event(p, ev, status, err) ==
    [ev |-> ev, i |-> idx[p], pre |-> stateDB[p].nonce, status |-> status,
     err |-> err, kerr |-> "nil", set |-> word[p], msg |-> msg[p],
     txIndex |-> stateDB[p].txIndex,
     thash |-> stateDB[p].thash, bhash |-> stateDB[p].bhash]

Init ==
    /\ block \in Blocks
    /\ pc = [p \in Passes |-> "idle"]
    /\ api = [p \in Passes |-> "none"]
    /\ idx = [p \in Passes |-> 0]
    /\ stateDB = [p \in Passes |-> NewStateDB(0)]
    /\ interrupt = [p \in Passes |-> "nil"]
    /\ word = [p \in Passes |-> 0]
    /\ msg = [p \in Passes |-> NoTx]
    /\ result = [p \in Passes |-> "none"]
    /\ log = [p \in Passes |-> <<>>]
    /\ canon = NewStateDB(0)
    /\ canonResult = NoResult

\* The caller invokes Prefetch(block, stateDB, cfg, interrupt) with a fresh
\* scratch state and a fresh flag.
CallPrefetch(p, n0, intr) ==
    /\ pc[p] = "idle"
    /\ pc' = [pc EXCEPT ![p] = "loop"]
    /\ api' = [api EXCEPT ![p] = "Prefetch"]
    /\ idx' = [idx EXCEPT ![p] = 0]
    /\ stateDB' = [stateDB EXCEPT ![p] = NewStateDB(n0)]
    /\ interrupt' = [interrupt EXCEPT ![p] = intr]
    /\ word' = [word EXCEPT ![p] = 0]
    /\ result' = [result EXCEPT ![p] = "Running"]
    /\ log' = [log EXCEPT ![p] = <<>>]
    /\ UNCHANGED <<block, msg, canon, canonResult>>

\* The caller invokes PrefetchTx(block, ti, stateDB, cfg, interrupt);
\* 0 <= ti < len(block.Transactions()) is the caller's obligation.
CallPrefetchTx(p, ti, n0, intr) ==
    /\ pc[p] = "idle"
    /\ ti < Len(block)
    /\ pc' = [pc EXCEPT ![p] = "check"]
    /\ api' = [api EXCEPT ![p] = "PrefetchTx"]
    /\ idx' = [idx EXCEPT ![p] = ti]
    /\ stateDB' = [stateDB EXCEPT ![p] = NewStateDB(n0)]
    /\ interrupt' = [interrupt EXCEPT ![p] = intr]
    /\ word' = [word EXCEPT ![p] = 0]
    /\ result' = [result EXCEPT ![p] = "Running"]
    /\ log' = [log EXCEPT ![p] = <<>>]
    /\ UNCHANGED <<block, msg, canon, canonResult>>

\* for i, tx := range block.Transactions()
PrefetchLoop(p) ==
    /\ pc[p] = "loop"
    /\ IF idx[p] < Len(block)
       THEN /\ pc' = [pc EXCEPT ![p] = "check"]
            /\ UNCHANGED result
       ELSE /\ pc' = [pc EXCEPT ![p] = "done"]
            /\ result' = [result EXCEPT ![p] = "Completed"]
    /\ UNCHANGED <<block, api, idx, stateDB, interrupt, word, msg, log,
                   canon, canonResult>>

\* A check hoisted out of the loop: only the first transaction's check reads
\* the flag.
CheckInterrupt_OnlyFirst(p) ==
    /\ pc[p] = "check"
    /\ IF Interrupted(interrupt[p], word[p]) /\ Len(log[p]) = 0
       THEN /\ pc' = [pc EXCEPT ![p] = "done"]
            /\ result' = [result EXCEPT ![p] = "Cancelled"]
            /\ log' = [log EXCEPT ![p] = Append(@, Event(p, "check", "cancelled", "nil"))]
       ELSE /\ pc' = [pc EXCEPT ![p] = "prepare"]
            /\ UNCHANGED result
            /\ log' = [log EXCEPT ![p] = Append(@, Event(p, "check", "continue", "nil"))]
    /\ UNCHANGED <<block, api, idx, stateDB, interrupt, word, msg, canon, canonResult>>

\* A check that consumes the request: it swaps the word back to 0 when it
\* finds it set.
CheckInterrupt_ClearsFlag(p) ==
    /\ pc[p] = "check"
    /\ IF Interrupted(interrupt[p], word[p])
       THEN /\ pc' = [pc EXCEPT ![p] = "done"]
            /\ result' = [result EXCEPT ![p] = "Cancelled"]
            /\ log' = [log EXCEPT ![p] = Append(@, Event(p, "check", "cancelled", "nil"))]
            /\ word' = [word EXCEPT ![p] = 0]
       ELSE /\ pc' = [pc EXCEPT ![p] = "prepare"]
            /\ UNCHANGED <<result, word>>
            /\ log' = [log EXCEPT ![p] = Append(@, Event(p, "check", "continue", "nil"))]
    /\ UNCHANGED <<block, api, idx, stateDB, interrupt, msg, canon, canonResult>>

\* A check that reads one flag word shared by all passes instead of the word
\* the pass was given.
CheckInterrupt_SharedFlag(p) ==
    /\ pc[p] = "check"
    /\ IF Interrupted(interrupt[p], word[1])
       THEN /\ pc' = [pc EXCEPT ![p] = "done"]
            /\ result' = [result EXCEPT ![p] = "Cancelled"]
            /\ log' = [log EXCEPT ![p] = Append(@, Event(p, "check", "cancelled", "nil"))]
       ELSE /\ pc' = [pc EXCEPT ![p] = "prepare"]
            /\ UNCHANGED result
            /\ log' = [log EXCEPT ![p] = Append(@, Event(p, "check", "continue", "nil"))]
    /\ UNCHANGED <<block, api, idx, stateDB, interrupt, word, msg, canon, canonResult>>

\* A pass that waits at the check for the supervisor to write its flag.
CheckInterrupt_Blocks(p) ==
    /\ pc[p] = "check"
    /\ interrupt[p] = "nil" \/ word[p] # 0
    /\ IF Interrupted(interrupt[p], word[p])
       THEN /\ pc' = [pc EXCEPT ![p] = "done"]
            /\ result' = [result EXCEPT ![p] = "Cancelled"]
            /\ log' = [log EXCEPT ![p] = Append(@, Event(p, "check", "cancelled", "nil"))]
       ELSE /\ pc' = [pc EXCEPT ![p] = "prepare"]
            /\ UNCHANGED result
            /\ log' = [log EXCEPT ![p] = Append(@, Event(p, "check", "continue", "nil"))]
    /\ UNCHANGED <<block, api, idx, stateDB, interrupt, word, msg, canon, canonResult>>

\* if interrupt != nil && atomic.LoadUint32(interrupt) == 1 { return }
CheckInterrupt(p) ==
    /\ pc[p] = "check"
    /\ IF Interrupted(interrupt[p], word[p])
       THEN /\ pc' = [pc EXCEPT ![p] = "done"]
            /\ result' = [result EXCEPT ![p] = "Cancelled"]
            /\ log' = [log EXCEPT ![p] = Append(@, Event(p, "check", "cancelled", "nil"))]
       ELSE /\ pc' = [pc EXCEPT ![p] = "prepare"]
            /\ UNCHANGED result
            /\ log' = [log EXCEPT ![p] = Append(@, Event(p, "check", "continue", "nil"))]
    /\ UNCHANGED <<block, api, idx, stateDB, interrupt, word, msg, canon, canonResult>>

\* A pass that tags every transaction with index 0.
PrepareTx_IndexZero(p) ==
    /\ pc[p] = "prepare"
    /\ LET tx == Transactions(block, idx[p])
           st == Prepare(stateDB[p], Hash(tx), BlockHash(block), 0)
       IN /\ stateDB' = [stateDB EXCEPT ![p] = st]
          /\ log' = [log EXCEPT ![p] = Append(@,
                        [Event(p, "tag", "tagged", "nil") EXCEPT
                            !.txIndex = st.txIndex, !.thash = st.thash,
                            !.bhash = st.bhash])]
    /\ pc' = [pc EXCEPT ![p] = "derive"]
    /\ UNCHANGED <<block, api, idx, interrupt, word, msg, result, canon, canonResult>>

\* A pass that reads the flag again before tagging and returns when it is set.
PrepareTx_Recheck(p) ==
    /\ pc[p] = "prepare"
    /\ IF Interrupted(interrupt[p], word[p])
       THEN /\ pc' = [pc EXCEPT ![p] = "done"]
            /\ result' = [result EXCEPT ![p] = "Cancelled"]
            /\ UNCHANGED <<stateDB, log>>
       ELSE LET tx == Transactions(block, idx[p])
                st == Prepare(stateDB[p], Hash(tx), BlockHash(block), idx[p])
            IN /\ stateDB' = [stateDB EXCEPT ![p] = st]
               /\ log' = [log EXCEPT ![p] = Append(@,
                             [Event(p, "tag", "tagged", "nil") EXCEPT
                                 !.txIndex = st.txIndex, !.thash = st.thash,
                                 !.bhash = st.bhash])]
               /\ pc' = [pc EXCEPT ![p] = "derive"]
               /\ UNCHANGED result
    /\ UNCHANGED <<block, api, idx, interrupt, word, msg, canon, canonResult>>

\* stateDB.Prepare(tx.Hash(), block.Hash(), i)
PrepareTx(p) ==
    /\ pc[p] = "prepare"
    /\ LET tx == Transactions(block, idx[p])
           st == Prepare(stateDB[p], Hash(tx), BlockHash(block), idx[p])
       IN /\ stateDB' = [stateDB EXCEPT ![p] = st]
          /\ log' = [log EXCEPT ![p] = Append(@,
                        [Event(p, "tag", "tagged", "nil") EXCEPT
                            !.txIndex = st.txIndex, !.thash = st.thash,
                            !.bhash = st.bhash])]
    /\ pc' = [pc EXCEPT ![p] = "derive"]
    /\ UNCHANGED <<block, api, idx, interrupt, word, msg, result, canon, canonResult>>

\* A loop that steps over the transaction after the one just executed.
AfterAdapter_SkipNext(p, err) ==
    IF err # "nil"
    THEN /\ pc' = [pc EXCEPT ![p] = "done"]
         /\ result' = [result EXCEPT ![p] = "Aborted"]
         /\ UNCHANGED idx
    ELSE IF api[p] = "Prefetch"
    THEN /\ pc' = [pc EXCEPT ![p] = "loop"]
         /\ idx' = [idx EXCEPT ![p] = @ + 2]
         /\ UNCHANGED result
    ELSE /\ pc' = [pc EXCEPT ![p] = "done"]
         /\ result' = [result EXCEPT ![p] = "Completed"]
         /\ UNCHANGED idx

\* A pass that goes on after an adapter error.
AfterAdapter_IgnoreErr(p, err) ==
    IF api[p] = "Prefetch"
    THEN /\ pc' = [pc EXCEPT ![p] = "loop"]
         /\ idx' = [idx EXCEPT ![p] = @ + 1]
         /\ UNCHANGED result
    ELSE /\ pc' = [pc EXCEPT ![p] = "done"]
         /\ result' = [result EXCEPT ![p] = "Completed"]
         /\ UNCHANGED idx

\* A single-transaction pass that goes on to the next transaction like the
\* whole-block loop.
AfterAdapter_TxLoops(p, err) ==
    IF err # "nil"
    THEN /\ pc' = [pc EXCEPT ![p] = "done"]
         /\ result' = [result EXCEPT ![p] = "Aborted"]
         /\ UNCHANGED idx
    ELSE /\ pc' = [pc EXCEPT ![p] = "loop"]
         /\ idx' = [idx EXCEPT ![p] = @ + 1]
         /\ UNCHANGED result

\* A pass that tries the transaction again after an adapter error.
AfterAdapter_Retry(p, err) ==
    IF err # "nil"
    THEN /\ pc' = [pc EXCEPT ![p] = "check"]
         /\ UNCHANGED <<idx, result>>
    ELSE IF api[p] = "Prefetch"
    THEN /\ pc' = [pc EXCEPT ![p] = "loop"]
         /\ idx' = [idx EXCEPT ![p] = @ + 1]
         /\ UNCHANGED result
    ELSE /\ pc' = [pc EXCEPT ![p] = "done"]
         /\ result' = [result EXCEPT ![p] = "Completed"]
         /\ UNCHANGED idx

\* What the pass does with the error precacheTransaction returned:
\* Prefetch returns on an error and otherwise goes on with the loop;
\* PrefetchTx returns either way.
AfterAdapter(p, err) ==
    IF err # "nil"
    THEN /\ pc' = [pc EXCEPT ![p] = "done"]
         /\ result' = [result EXCEPT ![p] = "Aborted"]
         /\ UNCHANGED idx
    ELSE IF api[p] = "Prefetch"
    THEN /\ pc' = [pc EXCEPT ![p] = "loop"]
         /\ idx' = [idx EXCEPT ![p] = @ + 1]
         /\ UNCHANGED result
    ELSE /\ pc' = [pc EXCEPT ![p] = "done"]
         /\ result' = [result EXCEPT ![p] = "Completed"]
         /\ UNCHANGED idx

\* An adapter that builds the engine and applies although derivation failed.
PrecacheDerive_IgnoreErr(p) ==
    /\ pc[p] = "derive"
    /\ LET tx == Transactions(block, idx[p])
           d == AsMessageWithAccountKeyPicker(tx, stateDB[p])
       IN /\ log' = [log EXCEPT ![p] = Append(@,
                        Event(p, "derive", IF d.err = "nil" THEN "derived" ELSE "none", d.err))]
          /\ pc' = [pc EXCEPT ![p] = "apply"]
          /\ msg' = [msg EXCEPT ![p] = tx]
          /\ UNCHANGED <<idx, result>>
    /\ UNCHANGED <<block, api, stateDB, interrupt, word, canon, canonResult>>

\* precacheTransaction, first half: derive the Message; on an error return
\* it to the pass.
PrecacheDerive(p) ==
    /\ pc[p] = "derive"
    /\ LET tx == Transactions(block, idx[p])
           d == AsMessageWithAccountKeyPicker(tx, stateDB[p])
       IN /\ log' = [log EXCEPT ![p] = Append(@,
                        Event(p, "derive", IF d.err = "nil" THEN "derived" ELSE "none", d.err))]
          /\ IF d.err # "nil"
             THEN /\ AfterAdapter(p, d.err)
                  /\ UNCHANGED msg
             ELSE /\ pc' = [pc EXCEPT ![p] = "apply"]
                  /\ msg' = [msg EXCEPT ![p] = d.msg]
                  /\ UNCHANGED <<idx, result>>
    /\ UNCHANGED <<block, api, stateDB, interrupt, word, canon, canonResult>>

\* An adapter that keeps the Message after it has returned.
PrecacheApply_KeepsMsg(p) ==
    /\ pc[p] = "apply"
    /\ LET vm == NewEVM(msg[p], stateDB[p])
           r == ApplyMessage(vm, msg[p])
           err == AdapterError(r.kerr)
       IN /\ stateDB' = [stateDB EXCEPT ![p] = r.statedb]
          /\ log' = [log EXCEPT ![p] = @ \o
                        <<Event(p, "newevm", "built", "nil"),
                          [Event(p, "apply", r.kerr.Status, err) EXCEPT
                              !.kerr = r.kerr.ErrTxInvalid]>>]
          /\ AfterAdapter(p, err)
    /\ UNCHANGED <<block, api, interrupt, word, msg, canon, canonResult>>

\* An adapter whose engine is bound to the canonical state database.
PrecacheApply_OnCanon(p) ==
    /\ pc[p] = "apply"
    /\ LET vm == NewEVM(msg[p], canon)
           r == ApplyMessage(vm, msg[p])
           err == AdapterError(r.kerr)
       IN /\ canon' = r.statedb
          /\ log' = [log EXCEPT ![p] = @ \o
                        <<Event(p, "newevm", "built", "nil"),
                          [Event(p, "apply", r.kerr.Status, err) EXCEPT
                              !.kerr = r.kerr.ErrTxInvalid]>>]
          /\ AfterAdapter(p, err)
    /\ msg' = [msg EXCEPT ![p] = NoTx]
    /\ UNCHANGED <<block, api, stateDB, interrupt, word, canonResult>>

\* precacheTransaction, second half: build the engine on the scratch state,
\* apply the Message, return kerr.ErrTxInvalid to the pass.
PrecacheApply(p) ==
    /\ pc[p] = "apply"
    /\ LET vm == NewEVM(msg[p], stateDB[p])
           r == ApplyMessage(vm, msg[p])
           err == AdapterError(r.kerr)
       IN /\ stateDB' = [stateDB EXCEPT ![p] = r.statedb]
          /\ log' = [log EXCEPT ![p] = @ \o
                        <<Event(p, "newevm", "built", "nil"),
                          [Event(p, "apply", r.kerr.Status, err) EXCEPT
                              !.kerr = r.kerr.ErrTxInvalid]>>]
          /\ AfterAdapter(p, err)
    /\ msg' = [msg EXCEPT ![p] = NoTx]
    /\ UNCHANGED <<block, api, interrupt, word, canon, canonResult>>

\* The pass has returned; its scratch state and flag are dropped.
Return(p) ==
    /\ pc[p] = "done"
    /\ pc' = [pc EXCEPT ![p] = "idle"]
    /\ api' = [api EXCEPT ![p] = "none"]
    /\ idx' = [idx EXCEPT ![p] = 0]
    /\ stateDB' = [stateDB EXCEPT ![p] = NewStateDB(0)]
    /\ interrupt' = [interrupt EXCEPT ![p] = "nil"]
    /\ word' = [word EXCEPT ![p] = 0]
    /\ result' = [result EXCEPT ![p] = "none"]
    /\ log' = [log EXCEPT ![p] = <<>>]
    /\ UNCHANGED <<block, msg, canon, canonResult>>

\* The supervisor requests cancellation: atomic.StoreUint32(interrupt, 1).
SetInterrupt(p) ==
    /\ pc[p] # "idle"
    /\ word[p] = 0
    /\ word' = [word EXCEPT ![p] = 1]
    /\ UNCHANGED <<block, passVars, canon, canonResult>>

RECURSIVE Process(_, _, _)
\* Canonical execution of transactions j.. of block b on state st: the final
\* state, or "invalid" when a transaction cannot be derived or applied.
Process(b, j, st) ==
    IF j > Len(b) THEN [done |-> TRUE, ok |-> TRUE, nonce |-> st.nonce]
    ELSE LET d == AsMessageWithAccountKeyPicker(b[j], st)
         IN IF d.err # "nil" THEN [done |-> TRUE, ok |-> FALSE, nonce |-> st.nonce]
            ELSE LET r == ApplyMessage(NewEVM(d.msg, st), d.msg)
                 IN IF r.kerr.ErrTxInvalid # "nil"
                    THEN [done |-> TRUE, ok |-> FALSE, nonce |-> st.nonce]
                    ELSE Process(b, j + 1, r.statedb)

\* The authoritative processor executes the block on canonical state.
CanonicalProcess ==
    /\ ~canonResult.done
    /\ LET r == Process(block, 1, canon)
       IN /\ canonResult' = r
          /\ canon' = IF r.ok THEN [canon EXCEPT !.nonce = r.nonce] ELSE canon
    /\ UNCHANGED <<block, passVars, word>>

Next ==
    \/ \E p \in Passes, n0 \in StateNonces, intr \in {"nil", "ptr"} :
          CallPrefetch(p, n0, intr)
    \/ \E p \in Passes, ti \in 0..(MaxTxs - 1), n0 \in StateNonces, intr \in {"nil", "ptr"} :
          CallPrefetchTx(p, ti, n0, intr)
    \/ \E p \in Passes : PrefetchLoop(p)
    \/ \E p \in Passes : CheckInterrupt(p)
    \/ \E p \in Passes : PrepareTx(p)
    \/ \E p \in Passes : PrecacheDerive(p)
    \/ \E p \in Passes : PrecacheApply(p)
    \/ \E p \in Passes : Return(p)
    \/ \E p \in Passes : SetInterrupt(p)
    \/ CanonicalProcess

Spec == Init /\ [][Next]_vars

\* The steps of the code of pass p, from its call to its return statement.
PassStep(p) ==
    \/ PrefetchLoop(p)
    \/ CheckInterrupt(p)
    \/ PrepareTx(p)
    \/ PrecacheDerive(p)
    \/ PrecacheApply(p)

\* The passes under a scheduler that keeps running a goroutine that can take
\* a step, with an engine whose apply step returns.  Nothing obliges the
\* supervisor to set a flag, the caller to start or collect a pass, or the
\* authoritative processor to run.
FairSpec == Init /\ [][Next]_vars /\ \A p \in Passes : WF_vars(PassStep(p))

----------------------------------------------------------------------------
\* Concurrent passes: NumConc invocations in flight at once over one block,
\* each with its own scratch state and its own flag word.

\* Number of passes in flight at once.
NumConc == 2
\* Longest block the concurrent passes run over.
MaxConcTxs == 2

ConcPasses == 1..NumConc

ConcBlocks == {b \in Blocks : Len(b) <= MaxConcTxs}

InitConc ==
    /\ block \in ConcBlocks
    /\ pc = [p \in ConcPasses |-> "idle"]
    /\ api = [p \in ConcPasses |-> "none"]
    /\ idx = [p \in ConcPasses |-> 0]
    /\ stateDB = [p \in ConcPasses |-> NewStateDB(0)]
    /\ interrupt = [p \in ConcPasses |-> "nil"]
    /\ word = [p \in ConcPasses |-> 0]
    /\ msg = [p \in ConcPasses |-> NoTx]
    /\ result = [p \in ConcPasses |-> "none"]
    /\ log = [p \in ConcPasses |-> <<>>]
    /\ canon = NewStateDB(0)
    /\ canonResult = NoResult

NextConc ==
    \/ \E p \in ConcPasses, n0 \in 0..(MaxConcTxs - 1), intr \in {"nil", "ptr"} :
          CallPrefetch(p, n0, intr)
    \/ \E p \in ConcPasses, ti \in 0..(MaxConcTxs - 1), n0 \in 0..(MaxConcTxs - 1),
             intr \in {"nil", "ptr"} :
          CallPrefetchTx(p, ti, n0, intr)
    \/ \E p \in ConcPasses : PrefetchLoop(p)
    \/ \E p \in ConcPasses : CheckInterrupt(p)
    \/ \E p \in ConcPasses : PrepareTx(p)
    \/ \E p \in ConcPasses : PrecacheDerive(p)
    \/ \E p \in ConcPasses : PrecacheApply(p)
    \/ \E p \in ConcPasses : SetInterrupt(p)

SpecConc == InitConc /\ [][NextConc]_vars

----------------------------------------------------------------------------
\* A supervisor that counts its requests in the flag word instead of storing
\* 1: atomic.AddUint32(interrupt, 1).  The word stays far below 2^32, so the
\* addition never wraps.
MaxWord == 2

AddInterrupt(p) ==
    /\ pc[p] # "idle"
    /\ word[p] < MaxWord
    /\ word' = [word EXCEPT ![p] = word[p] + 1]
    /\ UNCHANGED <<block, passVars, canon, canonResult>>

NextWord ==
    \/ \E p \in Passes, n0 \in StateNonces, intr \in {"nil", "ptr"} :
          CallPrefetch(p, n0, intr)
    \/ \E p \in Passes, ti \in 0..(MaxTxs - 1), n0 \in StateNonces, intr \in {"nil", "ptr"} :
          CallPrefetchTx(p, ti, n0, intr)
    \/ \E p \in Passes : PrefetchLoop(p)
    \/ \E p \in Passes : CheckInterrupt(p)
    \/ \E p \in Passes : PrepareTx(p)
    \/ \E p \in Passes : PrecacheDerive(p)
    \/ \E p \in Passes : PrecacheApply(p)
    \/ \E p \in Passes : Return(p)
    \/ \E p \in Passes : AddInterrupt(p)

SpecWord == Init /\ [][NextWord]_vars

----------------------------------------------------------------------------
\* Reading a pass's history.

\* The positions of log[p] holding step ev.
At(p, ev) == {k \in DOMAIN log[p] : log[p][k].ev = ev}

RECURSIVE Indices(_, _)
\* The loop indices of the adapter invocations in history h, in order.
Indices(h, k) ==
    IF k > Len(h) THEN <<>>
    ELSE IF h[k].ev = "derive" THEN <<h[k].i>> \o Indices(h, k + 1)
    ELSE Indices(h, k + 1)

\* The transactions the pass attempted (handed to the adapter), in order.
Attempts(p) == Indices(log[p], 1)

\* 0, 1, ..., n-1
Ascending(n) == [j \in 1..n |-> j - 1]

\* The adapter returned an error to the pass.
HasError(p) == \E k \in DOMAIN log[p] : log[p][k].err # "nil"

----------------------------------------------------------------------------
\* C1: a Prefetch pass whose flag is never set and whose adapter never returns
\* an error has, when it returns, attempted every transaction of the block
\* exactly once, in ascending index order 0..n-1, and is Completed; while it
\* runs, what it has attempted is the ascending prefix below its loop index.
C1_AttemptsAllInOrder ==
    \A p \in Passes :
        (api[p] = "Prefetch" /\ word[p] = 0 /\ ~HasError(p)) =>
            /\ \E m \in 0..Len(block) : Attempts(p) = Ascending(m)
            /\ pc[p] = "done" =>
                  /\ result[p] = "Completed"
                  /\ Attempts(p) = Ascending(Len(block))

\* Scenario A: three transactions, flag never set, all succeed.
C1_Witness ==
    \E p \in Passes :
        /\ api[p] = "Prefetch" /\ pc[p] = "done" /\ word[p] = 0
        /\ interrupt[p] = "ptr"
        /\ Len(block) = 3 /\ \A j \in 1..3 : block[j].kind = "ok"
        /\ ~HasError(p)
        /\ Attempts(p) = <<0, 1, 2>>
        /\ result[p] = "Completed"

----------------------------------------------------------------------------
\* C2: in a pass that was given a flag, a check that finds the flag set is the
\* last thing the pass does: it has returned (Cancelled, no error), nothing at
\* the checked index i or above was tagged, derived or applied, and every
\* earlier step is of an index below i.
C2_SetFlagStopsBeforeTx ==
    \A p \in Passes : \A k \in At(p, "check") :
        (interrupt[p] = "ptr" /\ log[p][k].set = 1) =>
            /\ k = Len(log[p])
            /\ log[p][k].status = "cancelled"
            /\ pc[p] = "done" /\ result[p] = "Cancelled"
            /\ \A j \in 1..(k - 1) : log[p][j].i < log[p][k].i
            /\ \A j \in DOMAIN log[p] :
                  log[p][j].ev # "check" => log[p][j].i < log[p][k].i

\* Scenario B: the flag is set right before the check that precedes T1; only
\* index 0 was visited.
C2_Witness ==
    \E p \in Passes :
        /\ api[p] = "Prefetch" /\ interrupt[p] = "ptr" /\ Len(block) = 3
        /\ pc[p] = "done" /\ result[p] = "Cancelled"
        /\ Attempts(p) = <<0>>
        /\ Len(log[p]) = 6
        /\ log[p][5].ev = "apply" /\ log[p][5].set = 0
        /\ log[p][6].ev = "check" /\ log[p][6].i = 1 /\ log[p][6].set = 1

\* C3: in a Prefetch pass, an adapter error at index i (a derivation error or
\* an invalid transaction) is the last thing the pass does: it has returned
\* (Aborted, nothing reported), no index above i was checked, tagged or
\* attempted, and the attempts are exactly 0..i in order.
C3_AdapterErrorStopsPass ==
    \A p \in Passes : \A k \in DOMAIN log[p] :
        (api[p] = "Prefetch" /\ log[p][k].err # "nil") =>
            /\ log[p][k].ev \in {"derive", "apply"}
            /\ log[p][k].err \in {"ErrInvalidSig", "ErrInvalidTx"}
            /\ k = Len(log[p])
            /\ pc[p] = "done" /\ result[p] = "Aborted"
            /\ \A j \in DOMAIN log[p] : log[p][j].i <= log[p][k].i
            /\ Attempts(p) = Ascending(log[p][k].i + 1)

\* Scenario C: T1 cannot be derived; index 0 succeeded, index 2 is never
\* visited.
C3_Witness ==
    \E p \in Passes :
        /\ api[p] = "Prefetch" /\ Len(block) = 3 /\ block[2].kind = "badsig"
        /\ pc[p] = "done" /\ result[p] = "Aborted"
        /\ Attempts(p) = <<0, 1>>
        /\ log[p][Len(log[p])].ev = "derive"
        /\ log[p][Len(log[p])].err = "ErrInvalidSig"
        /\ \E k \in At(p, "apply") : log[p][k].i = 0 /\ log[p][k].status = "success"

\* The history from position k on shows the pass going on to transaction i:
\* its check and, when the check lets it through, its tag and its attempt.
GoesOnTo(p, k, i) ==
    LET h == log[p]
        n == Len(h)
    IN IF k > n THEN pc[p] \in {"loop", "check"} /\ idx[p] = i
       ELSE /\ h[k].ev = "check" /\ h[k].i = i
            /\ h[k].status = "continue" <=> ~Interrupted(interrupt[p], h[k].set)
            /\ h[k].status = "continue" =>
                  IF k + 1 > n THEN pc[p] = "prepare" /\ idx[p] = i
                  ELSE /\ h[k + 1].ev = "tag" /\ h[k + 1].i = i
                       /\ IF k + 2 > n THEN pc[p] = "derive" /\ idx[p] = i
                          ELSE h[k + 2].ev = "derive" /\ h[k + 2].i = i

\* C4: in a Prefetch pass, a transaction at index i that was derived and
\* reverted during execution is no failure: the adapter returned no error for
\* it and, when i+1 < n, the pass goes on to the check of index i+1 and, the
\* flag not being seen set there, to the attempt of index i+1.
C4_RevertIsNotFailure ==
    \A p \in Passes : \A k \in At(p, "apply") :
        (api[p] = "Prefetch" /\ log[p][k].status = "reverted") =>
            /\ log[p][k].err = "nil"
            /\ IF log[p][k].i + 1 < Len(block)
               THEN GoesOnTo(p, k + 1, log[p][k].i + 1)
               ELSE k = Len(log[p]) =>
                      \/ pc[p] = "loop"
                      \/ pc[p] = "done" /\ result[p] = "Completed"

\* Scenario D: T1 reverts; the pass still visits index 2.
C4_Witness ==
    \E p \in Passes :
        /\ api[p] = "Prefetch" /\ Len(block) = 3 /\ block[2].kind = "revert"
        /\ pc[p] = "done" /\ result[p] = "Completed"
        /\ Attempts(p) = <<0, 1, 2>>
        /\ \E k \in At(p, "apply") :
              log[p][k].i = 1 /\ log[p][k].status = "reverted" /\ log[p][k].err = "nil"

----------------------------------------------------------------------------
\* C5: whatever passes have run or are running, and however each ended, the
\* canonical state is what it is with no pass at all: untouched until the
\* canonical execution of the block, and afterwards the result of executing
\* the block on the untouched parent state.
C5_PassInvisible ==
    /\ canonResult.done => canonResult = Process(block, 1, NewStateDB(0))
    /\ canon = IF canonResult.done /\ canonResult.ok
               THEN [NewStateDB(0) EXCEPT !.nonce = canonResult.nonce]
               ELSE NewStateDB(0)

\* The canonical execution of a three-transaction block is done while a pass
\* that applied all three to its scratch state has returned.
C5_Witness ==
    /\ canonResult.done /\ canonResult.ok /\ Len(block) = 3
    /\ \E p \in Passes :
          /\ pc[p] = "done" /\ result[p] = "Completed" /\ api[p] = "Prefetch"
          /\ stateDB[p].nonce = 3
          /\ Cardinality(At(p, "apply")) = 3

\* The state database an event saw.
StateAt(e) == [nonce |-> e.pre, thash |-> e.thash, bhash |-> e.bhash, txIndex |-> e.txIndex]

\* The state database after position k of the history of p.
StateAfter(p, k) == IF k = Len(log[p]) THEN stateDB[p] ELSE StateAt(log[p][k + 1])

\* The steps that follow a passed check at position k of the history of p have
\* the outcome of step i of Prefetch from the state the check saw.
StepMatches(p, k) ==
    LET h == log[p]
        n == Len(h)
        s == PrefetchStep(block, h[k].i, StateAt(h[k]))
    IN /\ k + 1 <= n => h[k + 1].ev = "tag"
       /\ k + 2 <= n => h[k + 2].ev = "derive"
       /\ (k + 2 <= n /\ h[k + 2].err # "nil") =>
             /\ s.err = h[k + 2].err
             /\ s.statedb = StateAfter(p, k + 2)
       /\ (k + 2 <= n /\ h[k + 2].err = "nil" /\ k + 4 <= n) =>
             /\ h[k + 4].ev = "apply"
             /\ s.err = h[k + 4].err
             /\ s.status = h[k + 4].status
             /\ s.statedb = StateAfter(p, k + 4)

\* C6: a PrefetchTx(B, ti) pass touches transaction ti and no other: every
\* step it takes is of index ti, it tags at most once, with (hash of
\* transaction ti, block hash, ti), and invokes the adapter at most once.  And
\* in either kind of pass the steps after a passed check of index i have the
\* outcome (error, status, resulting scratch state) of step i of Prefetch run
\* from the scratch state the check saw, so PrefetchTx at ti and step ti of
\* Prefetch agree whenever they start from the same state.
C6_PrefetchTxIsOneStep ==
    \A p \in Passes :
        /\ api[p] = "PrefetchTx" =>
              /\ \A k \in DOMAIN log[p] : log[p][k].i = idx[p]
              /\ pc[p] \notin {"loop", "idle"}
              /\ Cardinality(At(p, "tag")) <= 1
              /\ Cardinality(At(p, "derive")) <= 1
              /\ Cardinality(At(p, "apply")) <= 1
              /\ \A k \in At(p, "tag") :
                    /\ log[p][k].thash = Hash(Transactions(block, idx[p]))
                    /\ log[p][k].bhash = BlockHash(block)
                    /\ log[p][k].txIndex = idx[p]
        /\ \A k \in At(p, "check") :
              log[p][k].status = "continue" => StepMatches(p, k)

\* PrefetchTx of index 1 ran from a scratch state with nonce 1, the state step
\* 1 of Prefetch starts from, and succeeded.
C6_Witness ==
    \E p \in Passes :
        /\ api[p] = "PrefetchTx" /\ idx[p] = 1 /\ Len(block) = 3
        /\ pc[p] = "done" /\ result[p] = "Completed"
        /\ Len(log[p]) = 5
        /\ log[p][1].pre = 1
        /\ log[p][5].ev = "apply" /\ log[p][5].status = "success"
        /\ stateDB[p].nonce = 2

\* C7: a PrefetchTx pass checks the flag exactly once, first of all.  When the
\* pass was given a flag and the check finds it set, the pass has returned
\* with its scratch state untagged and nothing derived or applied; when the
\* check does not find it set, the pass goes on and, once returned, has
\* tagged, derived and (derivation succeeding) applied the transaction,
\* whatever the flag became afterwards.
C7_PrefetchTxChecksOnce ==
    \A p \in Passes :
        api[p] = "PrefetchTx" =>
            /\ Cardinality(At(p, "check")) <= 1
            /\ pc[p] # "check" => (Len(log[p]) >= 1 /\ log[p][1].ev = "check")
            /\ pc[p] = "check" => log[p] = <<>>
            /\ (Len(log[p]) >= 1 /\ interrupt[p] = "ptr" /\ log[p][1].set = 1) =>
                  /\ Len(log[p]) = 1
                  /\ pc[p] = "done" /\ result[p] = "Cancelled"
                  /\ stateDB[p] = NewStateDB(log[p][1].pre)
            /\ (Len(log[p]) >= 1 /\ log[p][1].set = 0) =>
                  /\ log[p][1].status = "continue"
                  /\ pc[p] = "done" =>
                        /\ result[p] \in {"Completed", "Aborted"}
                        /\ Cardinality(At(p, "tag")) = 1
                        /\ Cardinality(At(p, "derive")) = 1
                        /\ \A k \in At(p, "derive") :
                              log[p][k].err = "nil" => Cardinality(At(p, "apply")) = 1

\* The flag was clear at the check and set right after it; the transaction was
\* executed all the same.
C7_Witness ==
    \E p \in Passes :
        /\ api[p] = "PrefetchTx" /\ interrupt[p] = "ptr"
        /\ pc[p] = "done" /\ result[p] = "Completed"
        /\ Len(log[p]) = 5
        /\ log[p][1].ev = "check" /\ log[p][1].set = 0
        /\ log[p][2].ev = "tag" /\ log[p][2].set = 1
        /\ log[p][5].ev = "apply" /\ log[p][5].status = "success"

----------------------------------------------------------------------------
\* The flag of pass p was set while the pass was at work: some step of the
\* pass saw the word set.
SetDuringPass(p) == \E k \in DOMAIN log[p] : log[p][k].set = 1

\* C8 as stated, for passes in which the adapter returns no error: a Prefetch
\* pass (given a flag) whose flag was set while it was at work executes at
\* most one more transaction and ends Cancelled.
C8_Original ==
    \A p \in Passes :
        (api[p] = "Prefetch" /\ interrupt[p] = "ptr" /\ SetDuringPass(p)
         /\ ~HasError(p)) =>
            /\ \A j, k \in DOMAIN log[p] :
                  (log[p][j].set = 1 /\ log[p][k].set = 1
                   /\ log[p][j].ev # "check" /\ log[p][k].ev # "check") =>
                      log[p][j].i = log[p][k].i
            /\ pc[p] = "done" => result[p] = "Cancelled"

\* C8, amended: once the flag of a Prefetch pass (given a flag) is set, the
\* pass starts no transaction: every check that sees the flag set cancels, so
\* the steps taken with the flag set all belong to the one transaction whose
\* check had passed before.  The pass then returns Cancelled when it comes to
\* another check; when the flag was set during the last transaction of the
\* block, or that transaction fails, it returns Completed or Aborted instead,
\* without reading the flag again.
C8_BoundedResponse ==
    \A p \in Passes :
        (api[p] = "Prefetch" /\ interrupt[p] = "ptr" /\ SetDuringPass(p)) =>
            /\ \A k \in At(p, "check") :
                  log[p][k].set = 1 => (log[p][k].status = "cancelled" /\ k = Len(log[p]))
            /\ \A j, k \in DOMAIN log[p] :
                  (log[p][j].set = 1 /\ log[p][k].set = 1
                   /\ log[p][j].ev # "check" /\ log[p][k].ev # "check") =>
                      log[p][j].i = log[p][k].i
            /\ pc[p] = "done" =>
                  \/ result[p] = "Cancelled" /\ log[p][Len(log[p])].ev = "check"
                  \/ /\ result[p] = "Completed"
                     /\ log[p][Len(log[p])].ev = "apply"
                     /\ log[p][Len(log[p])].i = Len(block) - 1
                  \/ result[p] = "Aborted" /\ log[p][Len(log[p])].err # "nil"

\* The flag was set while T0 of three was being executed: T0 is finished, T1
\* is not started, the pass is Cancelled.
C8_Witness ==
    \E p \in Passes :
        /\ api[p] = "Prefetch" /\ interrupt[p] = "ptr" /\ Len(block) = 3
        /\ pc[p] = "done" /\ result[p] = "Cancelled"
        /\ Len(log[p]) = 6
        /\ log[p][1].set = 0 /\ log[p][2].set = 1
        /\ log[p][5].ev = "apply" /\ log[p][5].i = 0 /\ log[p][5].set = 1
        /\ log[p][6].ev = "check" /\ log[p][6].i = 1
        /\ Attempts(p) = <<0>>

\* C9: the adapter returns no error when the transaction succeeds or reverts;
\* the error it returns after applying is the engine's invalid-transaction
\* error and nothing else; the only other error is the derivation error,
\* returned exactly for a transaction that cannot be derived, and then
\* nothing follows it: no engine is built and nothing is applied.
C9_AdapterErrors ==
    \A p \in Passes : \A k \in DOMAIN log[p] :
        LET e == log[p][k]
        IN /\ e.ev \in {"check", "tag", "newevm"} => e.err = "nil"
           /\ e.ev = "apply" =>
                 /\ e.status \in {"success", "reverted"} => e.err = "nil"
                 /\ e.err = e.kerr
                 /\ e.err \in {"nil", "ErrInvalidTx"}
                 /\ e.err = "nil" => e.status \in {"success", "reverted", "fault"}
                 /\ log[p][k - 1].ev = "newevm"
                 /\ log[p][k - 2].ev = "derive" /\ log[p][k - 2].err = "nil"
           /\ e.ev = "derive" =>
                 /\ e.err \in {"nil", "ErrInvalidSig"}
                 /\ e.err # "nil" <=> Transactions(block, e.i).kind = "badsig"
                 /\ e.err # "nil" =>
                       /\ k = Len(log[p])
                       /\ pc[p] = "done"
                       /\ StateAfter(p, k).nonce = e.pre

\* T0 succeeded, T1 reverted, both without an error; T2 was rejected by the
\* engine and the adapter returned that error.
C9_Witness ==
    \E p \in Passes :
        /\ api[p] = "Prefetch" /\ Len(block) = 3 /\ pc[p] = "done"
        /\ \E k \in At(p, "apply") : log[p][k].status = "success" /\ log[p][k].err = "nil"
        /\ \E k \in At(p, "apply") : log[p][k].status = "reverted" /\ log[p][k].err = "nil"
        /\ \E k \in At(p, "apply") : log[p][k].err = "ErrInvalidTx"

\* C10 as stated: when derivation fails at index i, the scratch state is as
\* the check of index i saw it: nothing was written to it for transaction i.
C10_Original ==
    \A p \in Passes : \A k \in At(p, "derive") :
        log[p][k].err # "nil" => StateAfter(p, k) = StateAt(log[p][k - 2])

\* C10, amended: when derivation fails at index i, no engine was built and
\* nothing was applied for transaction i, and the account data of the scratch
\* state is as the check of index i saw it; but the scratch state has already
\* been written for transaction i: Prepare tagged it with (hash, block hash,
\* i) before the adapter was invoked.
C10_DerivationFailsBeforeEngine ==
    \A p \in Passes : \A k \in At(p, "derive") :
        log[p][k].err # "nil" =>
            /\ k = Len(log[p])
            /\ \A j \in At(p, "newevm") \cup At(p, "apply") : log[p][j].i < log[p][k].i
            /\ log[p][k - 2].ev = "check" /\ log[p][k - 2].i = log[p][k].i
            /\ stateDB[p].nonce = log[p][k - 2].pre
            /\ log[p][k - 1].ev = "tag" /\ log[p][k - 1].i = log[p][k].i
            /\ log[p][k - 2].txIndex # log[p][k].i
            /\ stateDB[p].txIndex = log[p][k].i
            /\ stateDB[p].thash = Hash(Transactions(block, log[p][k].i))
            /\ stateDB[p].bhash = BlockHash(block)

\* Derivation failed at index 1 after index 0 was applied.
C10_Witness ==
    \E p \in Passes :
        /\ api[p] = "Prefetch" /\ Len(block) = 2
        /\ pc[p] = "done" /\ result[p] = "Aborted"
        /\ Len(log[p]) = 8
        /\ log[p][8].ev = "derive" /\ log[p][8].err = "ErrInvalidSig" /\ log[p][8].i = 1
        /\ stateDB[p].txIndex = 1 /\ stateDB[p].nonce = 1

----------------------------------------------------------------------------
----------------------------------------------------------------------------
\* The three end states of a pass.
Terminal == {"Cancelled", "Aborted", "Completed"}

\* The transactions a pass is meant to attempt.
Intended(p) == IF api[p] = "Prefetch" THEN Ascending(Len(block)) ELSE <<idx[p]>>

\* No index occurs twice in sequence s.
NoRepeat(s) == \A j, k \in DOMAIN s : s[j] = s[k] => j = k

\* C12: a pass starts Running and is Running exactly while it is at one of
\* its steps.  It leaves Running only to Cancelled, by a check that saw its
\* flag set; to Aborted, by an adapter error; or to Completed, having
\* attempted all the transactions it was meant to, none failing.  An end state
\* is terminal: until the invocation is over nothing of the pass changes (no
\* check, tag or attempt, no other end state).  No transaction is attempted
\* twice in a pass.
C12_PassStateMachine ==
    [][\A p \in Passes :
          /\ (pc[p] = "idle" /\ pc'[p] # "idle") =>
                (result'[p] = "Running" /\ log'[p] = <<>>)
          /\ result'[p] = "Running" <=>
                pc'[p] \in {"loop", "check", "prepare", "derive", "apply"}
          /\ result'[p] \in Terminal <=> pc'[p] = "done"
          /\ (result[p] = "Running" /\ result'[p] # "Running") =>
                \/ /\ result'[p] = "Cancelled"
                   /\ log'[p] # log[p]
                   /\ log'[p][Len(log'[p])].ev = "check"
                   /\ Interrupted(interrupt[p], log'[p][Len(log'[p])].set)
                \/ /\ result'[p] = "Aborted"
                   /\ log'[p] # log[p]
                   /\ log'[p][Len(log'[p])].err # "nil"
                \/ /\ result'[p] = "Completed"
                   /\ Attempts(p)' = Intended(p)
                   /\ ~HasError(p)'
          /\ result[p] \in Terminal =>
                \/ /\ result'[p] = result[p] /\ pc'[p] = pc[p]
                   /\ log'[p] = log[p] /\ stateDB'[p] = stateDB[p]
                   /\ idx'[p] = idx[p] /\ api'[p] = api[p]
                \/ pc'[p] = "idle" /\ result'[p] = "none"
          /\ NoRepeat(Attempts(p)')
    ]_vars

\* A pass over three transactions ended Aborted at T1, and its flag was set
\* after that.
C12_Witness ==
    \E p \in Passes :
        /\ api[p] = "Prefetch" /\ interrupt[p] = "ptr" /\ Len(block) = 3
        /\ pc[p] = "done" /\ result[p] = "Aborted"
        /\ Attempts(p) = <<0, 1>>
        /\ word[p] = 1
        /\ \A k \in DOMAIN log[p] : log[p][k].set = 0

----------------------------------------------------------------------------
\* C13: during the life of a pass its flag word changes only from 0 (clear)
\* to 1 (set), never back, and only in a step of the supervisor: a step that
\* changes the word leaves everything of the pass as it is, so no step of
\* Prefetch, PrefetchTx or the adapter writes the flag.
C13_FlagMonotonic ==
    [][\A p \in Passes :
          (pc[p] # "idle" /\ pc'[p] # "idle" /\ word'[p] # word[p]) =>
              /\ word[p] = 0 /\ word'[p] = 1
              /\ passVars' = passVars
              /\ \A q \in Passes \ {p} : word'[q] = word[q]
    ]_vars

\* A pass went through a check that saw the flag set, and the flag is still
\* set.
C13_Witness ==
    \E p \in Passes :
        /\ api[p] = "Prefetch" /\ interrupt[p] = "ptr"
        /\ pc[p] = "done" /\ result[p] = "Cancelled"
        /\ Len(log[p]) = 11
        /\ log[p][10].set = 0
        /\ log[p][11].ev = "check" /\ log[p][11].set = 1
        /\ word[p] = 1

----------------------------------------------------------------------------
\* Everything a pass owns but its flag word.
PassState(p) ==
    <<pc[p], api[p], idx[p], stateDB[p], interrupt[p], msg[p], result[p], log[p]>>

\* Position k of the history of p is the step a pass running alone on the
\* inputs of p takes after the steps before it: the history starts with the
\* check of the first index on the state the pass was handed; a check is
\* decided by the pass's own flag word as it was then, and follows a
\* transaction that did not fail; tag, derivation, engine and application
\* follow a passing check in this order, with the outcome of PrefetchStep
\* from the state the check saw.
SoloEvent(p, k) ==
    LET h == log[p]
        e == h[k]
    IN CASE e.ev = "check" ->
              /\ e.status = IF Interrupted(interrupt[p], e.set)
                            THEN "cancelled" ELSE "continue"
              /\ IF k = 1
                 THEN /\ e.i = IF api[p] = "Prefetch" THEN 0 ELSE idx[p]
                      /\ StateAt(e) = NewStateDB(e.pre)
                 ELSE /\ api[p] = "Prefetch"
                      /\ k >= 6
                      /\ h[k - 1].ev = "apply" /\ h[k - 1].err = "nil"
                      /\ e.i = h[k - 1].i + 1
                      /\ StateAt(e) = PrefetchStep(block, h[k - 1].i,
                                                   StateAt(h[k - 5])).statedb
         [] e.ev = "tag" ->
              /\ k >= 2
              /\ h[k - 1].ev = "check" /\ h[k - 1].status = "continue"
              /\ e.i = h[k - 1].i
              /\ StateAt(e) = Prepare(StateAt(h[k - 1]),
                                      Hash(Transactions(block, e.i)),
                                      BlockHash(block), e.i)
         [] e.ev = "derive" ->
              /\ k >= 3
              /\ h[k - 1].ev = "tag" /\ e.i = h[k - 1].i
              /\ StateAt(e) = StateAt(h[k - 1])
              /\ e.err # "nil" =>
                    e.err = PrefetchStep(block, e.i, StateAt(h[k - 2])).err
         [] e.ev = "newevm" ->
              /\ k >= 4
              /\ h[k - 1].ev = "derive" /\ h[k - 1].err = "nil"
              /\ e.i = h[k - 1].i
              /\ StateAt(e) = StateAt(h[k - 1])
         [] e.ev = "apply" ->
              /\ k >= 5
              /\ h[k - 1].ev = "newevm" /\ e.i = h[k - 1].i
              /\ LET s == PrefetchStep(block, e.i, StateAt(h[k - 4]))
                 IN e.err = s.err /\ e.status = s.status
         [] OTHER -> FALSE

\* Where the pass stands is where its history leads a pass running alone:
\* its scratch state is the one its last step left, and once returned its
\* end state is Cancelled after a cancelling check, Aborted after an error,
\* and otherwise Completed, with the last intended transaction applied.
SoloEnd(p) ==
    LET h == log[p]
        n == Len(h)
    IN /\ (n >= 1 /\ h[n].ev = "apply") =>
             stateDB[p] = PrefetchStep(block, h[n].i, StateAt(h[n - 4])).statedb
       /\ (n >= 1 /\ h[n].ev # "apply") => stateDB[p] = StateAt(h[n])
       /\ (n >= 1 /\ (h[n].status = "cancelled" \/ h[n].err # "nil")) => pc[p] = "done"
       /\ pc[p] = "done" =>
             IF n >= 1 /\ h[n].status = "cancelled" THEN result[p] = "Cancelled"
             ELSE IF n >= 1 /\ h[n].err # "nil" THEN result[p] = "Aborted"
             ELSE /\ result[p] = "Completed"
                  /\ IF api[p] = "Prefetch" /\ Len(block) = 0 THEN n = 0
                     ELSE /\ n >= 1 /\ h[n].ev = "apply"
                          /\ h[n].i = IF api[p] = "Prefetch"
                                      THEN Len(block) - 1 ELSE idx[p]

\* The step from the current state to the next extends the history of p by
\* the steps of a pass running alone.
SoloStep(p) ==
    /\ Len(log'[p]) >= Len(log[p])
    /\ SubSeq(log'[p], 1, Len(log[p])) = log[p]
    /\ \A k \in (Len(log[p]) + 1)..Len(log'[p]) : SoloEvent(p, k)'
    /\ SoloEnd(p)'

\* C14: with several passes in flight, each with its own scratch state and
\* its own flag, every step is a step of one pass and changes nothing another
\* pass owns (nor another pass's flag), setting the flag of one pass changes
\* no pass, and under every interleaving every step of a pass extends its
\* history as a pass running alone on the same inputs would, up to the same
\* end state.
C14_PassesDoNotInterfere ==
    [][/\ \A p, q \in ConcPasses :
             (p # q /\ PassState(p)' # PassState(p)) =>
                 (PassState(q)' = PassState(q) /\ word'[q] = word[q])
       /\ \A p \in ConcPasses :
             word'[p] # word[p] =>
                 \A q \in ConcPasses :
                     /\ pc[q] # "idle" => PassState(q)' = PassState(q)
                     /\ q # p => word'[q] = word[q]
       /\ \A p \in ConcPasses : PassState(p)' # PassState(p) => SoloStep(p)
    ]_vars

\* Two whole-block passes are in flight; the flag of the first is set and it
\* is about to be cancelled at T1, the second, its own flag clear, is
\* applying T1 on its own scratch state.
C14_Witness ==
    /\ api[1] = "Prefetch" /\ api[2] = "Prefetch"
    /\ interrupt[1] = "ptr" /\ interrupt[2] = "ptr"
    /\ pc[1] = "done" /\ result[1] = "Cancelled" /\ Attempts(1) = <<0>>
    /\ word[1] = 1 /\ word[2] = 0
    /\ pc[2] = "apply" /\ idx[2] = 1
    /\ stateDB[1].nonce = 1 /\ stateDB[2].nonce = 1
    /\ stateDB[1].txIndex = 0 /\ stateDB[2].txIndex = 1
    /\ \E k \in DOMAIN log[2] : log[2][k].ev = "apply" /\ log[2][k].i = 0
----------------------------------------------------------------------------
\* C15: every pass terminates.  A Prefetch pass over a block of n
\* transactions invokes the adapter at most n times and a PrefetchTx pass at
\* most once; a returned pass is Cancelled, Aborted or Completed; at every
\* step short of its return the pass can take its next step whatever the
\* flag holds; and, the engine's apply step returning, a pass that was
\* started does return.
C15_PassTerminates ==
    /\ [](\A p \in Passes :
            /\ Cardinality(At(p, "derive")) <=
                   (IF api[p] = "Prefetch" THEN Len(block) ELSE 1)
            /\ pc[p] = "done" => result[p] \in Terminal
            /\ pc[p] \notin {"idle", "done"} => ENABLED PassStep(p))
    /\ \A p \in Passes : (pc[p] \notin {"idle", "done"}) ~> (pc[p] = "done")

\* A whole-block pass over a full block has returned Completed after as many
\* adapter invocations as the block has transactions, its flag set too late
\* to be seen.
C15_Witness ==
    /\ api[1] = "Prefetch" /\ Len(block) = MaxTxs
    /\ pc[1] = "done" /\ result[1] = "Completed"
    /\ Cardinality(At(1, "derive")) = MaxTxs
    /\ interrupt[1] = "ptr" /\ word[1] = 1
----------------------------------------------------------------------------
\* The tag (thash, bhash, txIndex) of transaction i of the block.
TagOf(i) ==
    [thash |-> Hash(Transactions(block, i)), bhash |-> BlockHash(block), txIndex |-> i]

\* The tag the scratch state carried at event e.
TagAt(e) == [thash |-> e.thash, bhash |-> e.bhash, txIndex |-> e.txIndex]

\* C16: every adapter invocation of a pass comes directly after the tagging
\* of the same transaction, which comes directly after the passing check for
\* it; the tag is (hash of that transaction, block hash, its index) and is
\* the tag the adapter runs under.  Every tagging is followed by the adapter
\* invocation for the same transaction, so a transaction that is not
\* attempted is never tagged, and nothing is tagged after a cancelling check.
C16_TaggedBeforeAdapter ==
    \A p \in Passes :
        LET h == log[p]
            n == Len(h)
        IN /\ \A k \in At(p, "derive") :
                 /\ k >= 3
                 /\ h[k - 2].ev = "check" /\ h[k - 2].status = "continue"
                 /\ h[k - 1].ev = "tag"
                 /\ h[k - 2].i = h[k].i /\ h[k - 1].i = h[k].i
                 /\ TagAt(h[k - 1]) = TagOf(h[k].i)
                 /\ TagAt(h[k]) = TagOf(h[k].i)
                 /\ TagAt(h[k - 2]) # TagOf(h[k].i)
           /\ \A k \in At(p, "tag") :
                 /\ h[k].txIndex = h[k].i
                 /\ IF k = n
                    THEN pc[p] = "derive" /\ idx[p] = h[k].i
                    ELSE h[k + 1].ev = "derive" /\ h[k + 1].i = h[k].i
           /\ \A k \in At(p, "check") :
                 h[k].status = "cancelled" => k = n
           /\ pc[p] \in {"derive", "apply"} =>
                 /\ stateDB[p].txIndex = idx[p]
                 /\ stateDB[p].thash = Hash(Transactions(block, idx[p]))
                 /\ stateDB[p].bhash = BlockHash(block)
           /\ pc[p] = "done" =>
                 {h[k].txIndex : k \in At(p, "tag")} =
                     {Attempts(p)[j] : j \in DOMAIN Attempts(p)}

\* A whole-block pass has tagged T0 and T1 in turn and is applying T1 under
\* T1's tag; a check for T2 has not happened.
C16_Witness ==
    /\ api[1] = "Prefetch" /\ Len(block) = MaxTxs
    /\ pc[1] = "apply" /\ idx[1] = 1
    /\ [thash |-> stateDB[1].thash, bhash |-> stateDB[1].bhash,
        txIndex |-> stateDB[1].txIndex] = TagOf(1)
    /\ {log[1][k].txIndex : k \in At(1, "tag")} = {0, 1}
----------------------------------------------------------------------------
\* C17: every adapter invocation whose derivation succeeds is followed by
\* exactly one engine construction and one application, for the same
\* transaction, of the Message derived from that transaction, on the pass's
\* scratch state as it was tagged; an invocation whose derivation fails
\* builds no engine.  No transaction is applied twice in a pass, so no
\* Message serves two transactions, and outside the adapter's second half
\* the pass holds no Message: none is carried to the next transaction or
\* the next pass.
C17_OneMessageOneEngine ==
    \A p \in Passes :
        LET h == log[p]
            n == Len(h)
        IN /\ \A k \in At(p, "derive") :
                 IF h[k].err # "nil" THEN k = n
                 ELSE IF k = n
                      THEN /\ pc[p] = "apply" /\ idx[p] = h[k].i
                           /\ msg[p] = Transactions(block, h[k].i)
                      ELSE /\ k + 2 <= n
                           /\ h[k + 1].ev = "newevm" /\ h[k + 2].ev = "apply"
                           /\ h[k + 1].i = h[k].i /\ h[k + 2].i = h[k].i
           /\ \A k \in At(p, "newevm") :
                 /\ k >= 2 /\ k + 1 <= n
                 /\ h[k - 1].ev = "derive" /\ h[k - 1].err = "nil"
                 /\ h[k + 1].ev = "apply"
                 /\ h[k].msg = Transactions(block, h[k].i)
                 /\ StateAt(h[k]) = StateAt(h[k - 1])
           /\ \A k \in At(p, "apply") :
                 /\ k >= 2 /\ h[k - 1].ev = "newevm"
                 /\ h[k].msg = h[k - 1].msg
                 /\ StateAfter(p, k) =
                       ApplyMessage(NewEVM(h[k].msg, StateAt(h[k - 1])), h[k].msg).statedb
           /\ \A j, k \in At(p, "apply") : h[j].msg = h[k].msg => j = k
           /\ \A k \in DOMAIN h :
                 h[k].ev \notin {"newevm", "apply"} => h[k].msg = NoTx
           /\ pc[p] # "apply" => msg[p] = NoTx

\* A whole-block pass has applied T0 and T1, each with its own Message, holds
\* no Message and is at the check for T2.
C17_Witness ==
    /\ api[1] = "Prefetch" /\ pc[1] = "check" /\ idx[1] = MaxTxs - 1
    /\ msg[1] = NoTx
    /\ Cardinality(At(1, "newevm")) = MaxTxs - 1
    /\ Cardinality({log[1][k].msg : k \in At(1, "apply")}) = MaxTxs - 1
----------------------------------------------------------------------------
RECURSIVE UninterruptedAttempts(_, _, _, _)
\* The indices a pass over transactions i..last of block b attempts from
\* state st when no check ever cancels it: each in turn, up to and including
\* the first whose adapter invocation returns an error.
UninterruptedAttempts(b, i, last, st) ==
    IF i > last THEN <<>>
    ELSE LET s == PrefetchStep(b, i, st)
         IN IF s.err # "nil" THEN <<i>>
            ELSE <<i>> \o UninterruptedAttempts(b, i + 1, last, s.statedb)

\* C18: a pass given no flag (a nil interrupt) passes every check, whatever
\* the flag word holds, and is never Cancelled; when it returns it has
\* attempted what a pass that is never cancelled attempts, and is Aborted on
\* the adapter error it met or Completed having met none.
C18_NilInterruptNeverCancels ==
    \A p \in Passes :
        (pc[p] # "idle" /\ interrupt[p] = "nil") =>
            LET h == log[p]
                n == Len(h)
                first == IF api[p] = "Prefetch" THEN 0 ELSE idx[p]
                last == IF api[p] = "Prefetch" THEN Len(block) - 1 ELSE idx[p]
            IN /\ \A k \in At(p, "check") : h[k].status = "continue"
               /\ result[p] # "Cancelled"
               /\ pc[p] = "done" =>
                     /\ Attempts(p) =
                           IF n = 0 THEN <<>>
                           ELSE UninterruptedAttempts(block, first, last,
                                                      NewStateDB(h[1].pre))
                     /\ IF HasError(p)
                        THEN result[p] = "Aborted" /\ h[n].err # "nil"
                        ELSE result[p] = "Completed" /\ Attempts(p) = Intended(p)

\* A whole-block pass given no flag has completed a full block although the
\* flag word was 1 at each of its checks.
C18_Witness ==
    /\ api[1] = "Prefetch" /\ interrupt[1] = "nil" /\ Len(block) = MaxTxs
    /\ pc[1] = "done" /\ result[1] = "Completed"
    /\ Attempts(1) = Ascending(MaxTxs)
    /\ \A k \in At(1, "check") : log[1][k].set = 1
----------------------------------------------------------------------------
\* C19: a check cancels the pass exactly when the pass was given a flag and
\* the word it loads equals 1.  On any other value, 0 or a count above 1 left
\* by a supervisor that increments, the check passes and the pass goes on to
\* tag the transaction; a cancelling check is the last step of the pass.
C19_SetMeansEqualsOne ==
    \A p \in Passes :
        LET h == log[p]
            n == Len(h)
        IN \A k \in At(p, "check") :
              /\ h[k].set \in 0..MaxWord
              /\ h[k].status = "cancelled" <=> (interrupt[p] = "ptr" /\ h[k].set = 1)
              /\ h[k].status = "continue" <=> (interrupt[p] = "nil" \/ h[k].set # 1)
              /\ h[k].status = "cancelled" =>
                    k = n /\ pc[p] = "done" /\ result[p] = "Cancelled"
              /\ h[k].status = "continue" =>
                    IF k = n THEN pc[p] = "prepare" /\ result[p] = "Running"
                    ELSE h[k + 1].ev = "tag" /\ h[k + 1].i = h[k].i

\* The flag word of a pass that was given a flag held 1 while T0 was being
\* executed and 2 at the check for T1, which passed; the pass went on and has
\* completed the block.
C19_Witness ==
    /\ api[1] = "Prefetch" /\ interrupt[1] = "ptr" /\ Len(block) = MaxTxs
    /\ pc[1] = "done" /\ result[1] = "Completed"
    /\ Len(log[1]) >= 6
    /\ log[1][1].set = 0 /\ log[1][2].set = 1
    /\ log[1][6].ev = "check" /\ log[1][6].set = MaxWord
    /\ log[1][6].status = "continue"
====
